---- MODULE Spec2Model ----
(***************************************************************************)
(* A model of model_utils/models.py: the positioning mixin                 *)
(* (PositionedModelMixin), the class_prepared handlers that attach query   *)
(* managers (add_status_query_managers, add_timeframed_query_manager) and  *)
(* the StatusModel / TimeFramedModel field declarations.                   *)
(*                                                                         *)
(* The module holds several specifications over one set of variables; a    *)
(* specification leaves the variables of the other parts at their initial  *)
(* values.                                                                 *)
(*   SpecPos     serial calls of the positioning mixin, every partition    *)
(*               numbered 1..n at the start                                *)
(*   SpecPosAny  refresh_positions from arbitrary stored positions         *)
(*   SpecConc    two concurrent move_to calls                              *)
(*   SpecStatus  class_prepared -> add_status_query_managers               *)
(*   SpecSave    saves of a StatusModel entity                             *)
(*   SpecTime    class_prepared -> add_timeframed_query_manager, queries   *)
(***************************************************************************)
EXTENDS Integers, Sequences, FiniteSets, TLC

VARIABLES
    \* ---- positioning mixin ----
    position,    \* the stored position of every saved row: [saved -> Int]
    saved,       \* the instances that have a row in the table
    cartScoped,  \* TRUE: get_position_filter_args is overridden as its
                 \* docstring shows ({"cart": self.cart}); FALSE: the base {}
    last,        \* the last completed serial call, with the positions before it
    calls,       \* SpecConc: the state of each concurrent caller
    \* ---- class_prepared handlers ----
    cls,         \* the declared class: its bases, fields and STATUS
    managers,    \* the attribute names under which a QueryManager is attached
    prepared,    \* "pending", "ok" or the exception class_prepared ended with
    \* ---- StatusModel saves ----
    now,         \* the clock (datetime.now)
    inst,        \* the in-memory instance: status, title, status_changed
    row,         \* the persisted row of that instance
    lastSave,    \* the last save: time and the values around it
    \* ---- timeframed manager ----
    frames,      \* the (start, end) of every TimeFramedModel row
    timeframedQ, \* the argument the manager's Q objects hold, once attached
    queried      \* the last query through the timeframed manager

posVars == <<position, saved, cartScoped, last, calls>>
clsVars == <<cls, managers, prepared>>
saveVars == <<inst, row, lastSave>>
timeVars == <<frames, timeframedQ, queried>>
vars == <<posVars, clsVars, now, saveVars, timeVars>>

----------------------------------------------------------------------------
(* Bounds of the model *)

NumObjs == 3    \* instances of the positioned model
MaxPos == 2     \* SpecPosAny: stored positions are drawn from 0..MaxPos
MaxTimes == 2   \* move_up / move_down are called with times in 1..MaxTimes

MaxStatus == 2  \* a STATUS enumeration declares at most MaxStatus pairs
MaxTime == 2    \* the clock runs over 0..MaxTime
NumRows == 2    \* rows of the TimeFramedModel subtype

Objs == 1..NumObjs
\* The cart (the docstring's partition key) of an instance.
Cart(o) == o % 2

\* Initial values of the variables a specification does not use.
NoClass == [status |-> FALSE, timeframed |-> FALSE, fields |-> {}, STATUS |-> <<>>]
Pending == [out |-> "pending", at |-> 0]
NoSave == [at |-> -1, before |-> [status |-> "", title |-> "", status_changed |-> 0],
           asked |-> [status |-> "", title |-> "", status_changed |-> 0]]
NoQ == [attached |-> FALSE, callable |-> FALSE, value |-> 0]
NoQuery == [at |-> -1, result |-> {}]

\* The largest element of a non-empty set of integers.
MaxOf(S) == CHOOSE m \in S : \A x \in S : x <= m

\* Outcomes of a call.
Return(v) == [kind |-> "return", val |-> v, exc |-> ""]
ReturnFalse == [kind |-> "False", val |-> 0, exc |-> ""]
Raise(e) == [kind |-> "raise", val |-> 0, exc |-> e]

----------------------------------------------------------------------------
(* PositionedModelMixin *)

\* get_position_field_name
get_position_field_name == "position"

\* get_position_filter_args: a filter is a set of <<field, value>> pairs.
get_position_filter_args(self) ==
    IF cartScoped THEN {<<"cart", Cart(self)>>} ELSE {}

\* The value of a field of a stored row.
Attr(pos, o, f) == IF f = get_position_field_name THEN pos[o] ELSE Cart(o)

\* Variant: the filter is ignored and every saved row is selected.
objects_all(pos, filter) == DOMAIN pos

\* self.__class__.objects.filter(filter): the saved rows matching every pair.
objects_filter(pos, filter) ==
    {o \in DOMAIN pos : \A kv \in filter : Attr(pos, o, kv[1]) = kv[2]}

\* The orders in which a queryset may enumerate a set of rows.
RECURSIVE Orders(_)
Orders(S) ==
    IF S = {} THEN {<<>>}
    ELSE UNION {{<<o>> \o rest : rest \in Orders(S \ {o})} : o \in S}

\* update(obj, position=value): the row's stored position is set.
update(pos, obj, value) == [pos EXCEPT ![obj] = value]

\* The loop of refresh_positions over the enumerated rows.
RECURSIVE RefreshLoop(_, _, _, _)
RefreshLoop(pos, order, i, counter) ==
    IF i > Len(order) THEN pos
    ELSE RefreshLoop(update(pos, order[i], counter), order, i + 1, counter + 1)

\* Variant: the counter starts at 0.
RefreshFromZero(pos, order) == RefreshLoop(pos, order, 1, 0)

\* refresh_positions, given the order the queryset enumerates in.
refresh_positions(pos, order) == RefreshLoop(pos, order, 1, 1)

\* get_next_free_position: refresh_positions runs, then the aggregate is
\* built with Max, a name the module neither imports nor defines.
get_next_free_position(pos, order) ==
    [pos |-> refresh_positions(pos, order), out |-> Raise("NameError")]

\* move_to: line 170 reads the local position_f, which is first assigned on
\* line 171, so the call ends there; the lookup and the three updates of
\* lines 172-183 are never reached.
move_to(pos, self, p) ==
    [pos |-> pos, out |-> Raise("UnboundLocalError")]

\* move_up / move_down: the callee move_to is looked up as a global name,
\* before the argument is evaluated; the module defines no such name.
move_up(pos, self, times) ==
    [pos |-> pos, out |-> Raise("NameError")]

move_down(pos, self, times) ==
    [pos |-> pos, out |-> Raise("NameError")]

NoCall == [op |-> "none", self |-> 0, arg |-> 0, out |-> Return(0), pre |-> <<>>]

Done(op, self, arg, r) ==
    /\ position' = r.pos
    /\ last' = [op |-> op, self |-> self, arg |-> arg, out |-> r.out, pre |-> position]
    /\ UNCHANGED <<saved, cartScoped, calls>>
    /\ UNCHANGED <<clsVars, now, saveVars, timeVars>>

RefreshPositions(self) ==
    \E order \in Orders(objects_filter(position, get_position_filter_args(self))) :
        Done("refresh_positions", self, 0,
             [pos |-> refresh_positions(position, order), out |-> Return(0)])

GetNextFreePosition(self) ==
    \E order \in Orders(objects_filter(position, get_position_filter_args(self))) :
        Done("get_next_free_position", self, 0,
             get_next_free_position(position, order))

MoveTo(self, p) == Done("move_to", self, p, move_to(position, self, p))

MoveUp(self, times) == Done("move_up", self, times, move_up(position, self, times))

MoveDown(self, times) ==
    Done("move_down", self, times, move_down(position, self, times))

\* Target positions tried: every position of a numbered partition, the
\* sentinel 0, one below and one above.
Targets == -1..(NumObjs + 1)

NextPos ==
    \/ \E self \in Objs : RefreshPositions(self)
    \/ \E self \in Objs : GetNextFreePosition(self)
    \/ \E self \in Objs, p \in Targets : MoveTo(self, p)
    \/ \E self \in Objs, times \in 1..MaxTimes : MoveUp(self, times)
    \/ \E self \in Objs, times \in 1..MaxTimes : MoveDown(self, times)

\* The partition of self: the saved rows of its cart when positions are
\* scoped by cart, every saved row otherwise.
Partition(self) ==
    IF cartScoped THEN {o \in saved : Cart(o) = Cart(self)} ELSE saved

\* Positions of the rows P are exactly 1..|P|, each once.
Contiguous(pos, P) ==
    /\ \A o \in P : pos[o] \in 1..Cardinality(P)
    /\ \A o1, o2 \in P : pos[o1] = pos[o2] => o1 = o2

Procs == {1, 2}

IdleCalls == [t \in Procs |-> [pc |-> "idle", self |-> 0, arg |-> 0, out |-> Return(0)]]

OtherInit ==
    /\ cls = NoClass
    /\ managers = {}
    /\ prepared = Pending
    /\ now = 0
    /\ inst = [status |-> "draft", title |-> "a", status_changed |-> 0]
    /\ row = inst
    /\ lastSave = NoSave
    /\ frames = <<>>
    /\ timeframedQ = NoQ
    /\ queried = NoQuery

\* A table with arbitrary stored positions (gaps, duplicates, zeros).
InitPosAny ==
    /\ saved \in SUBSET Objs
    /\ position \in [saved -> 0..MaxPos]
    /\ cartScoped \in BOOLEAN
    /\ last = NoCall
    /\ calls = IdleCalls
    /\ OtherInit

\* A table in which every partition is numbered 1..n.
InitPos ==
    /\ saved \in SUBSET Objs
    /\ position \in [saved -> 1..NumObjs]
    /\ cartScoped \in BOOLEAN
    /\ \A self \in Objs : Contiguous(position, Partition(self))
    /\ last = NoCall
    /\ calls = IdleCalls
    /\ OtherInit

SpecPos == InitPos /\ [][NextPos]_vars
\* refresh_positions called on a table with arbitrary stored positions.
NextRefresh == \E self \in Objs : RefreshPositions(self)

SpecPosAny == InitPosAny /\ [][NextRefresh]_vars

----------------------------------------------------------------------------
(* Two concurrent callers of move_to, each making one call.  A call is     *)
(* invoked and then runs; the run of move_to is one step, since the call   *)
(* ends on line 170 before its first query.                                *)

Invoke(t, self, p) ==
    /\ calls[t].pc = "idle"
    /\ calls' = [calls EXCEPT ![t] = [pc |-> "move_to", self |-> self, arg |-> p,
                                      out |-> Return(0)]]
    /\ UNCHANGED <<position, saved, cartScoped, last>>
    /\ UNCHANGED <<clsVars, now, saveVars, timeVars>>

RunMoveTo(t) ==
    /\ calls[t].pc = "move_to"
    /\ LET r == move_to(position, calls[t].self, calls[t].arg) IN
        /\ position' = r.pos
        /\ calls' = [calls EXCEPT ![t].pc = "done", ![t].out = r.out]
    /\ UNCHANGED <<saved, cartScoped, last>>
    /\ UNCHANGED <<clsVars, now, saveVars, timeVars>>

NextConc ==
    \/ \E t \in Procs, self \in Objs, p \in Targets : Invoke(t, self, p)
    \/ \E t \in Procs : RunMoveTo(t)

SpecConc == InitPos /\ [][NextConc]_vars

----------------------------------------------------------------------------
(* Claims about the positioning mixin *)

\* The rows of self's partition other than self that held position p.
HoldersOf(pos, self, p) ==
    {o \in Partition(self) \ {self} : pos[o] = p}

\* C1 (as claimed): when another row O of S's partition holds p, S.move_to(p)
\* returns p, leaves S at p and O at S's old position, and moves no other row.
C1_MoveToSwaps ==
    (last.op = "move_to" /\ last.self \in DOMAIN last.pre) =>
        \A O \in HoldersOf(last.pre, last.self, last.arg) :
            /\ last.out = Return(last.arg)
            /\ position[last.self] = last.arg
            /\ position[O] = last.pre[last.self]
            /\ \A o \in saved \ {last.self, O} : position[o] = last.pre[o]

\* C2 (as claimed): when no row of S's partition holds p, S.move_to(p)
\* returns False, without raising, and changes no position.
C2_MoveToMissing ==
    (/\ last.op = "move_to"
     /\ last.self \in saved
     /\ \A o \in Partition(last.self) : last.pre[o] # last.arg) =>
        /\ last.out = ReturnFalse
        /\ position = last.pre

\* C3: from partitions numbered 1..n, after any sequence of serial calls of
\* the five operations every partition is still numbered 1..n, each position
\* once, and no row is left at the sentinel 0.
C3_Contiguous ==
    /\ \A self \in Objs : Contiguous(position, Partition(self))
    /\ \A o \in saved : position[o] # 0

C3_Witness ==
    /\ last.op = "get_next_free_position"
    /\ Cardinality(Partition(last.self)) >= 2
    /\ position # last.pre

C5_NextFree ==
    last.op = "get_next_free_position" =>
        LET P == Partition(last.self) IN
        /\ Contiguous(position, P)
        /\ last.out.kind = "return"
        /\ last.out.val = IF P = {} THEN 1 ELSE MaxOf({position[o] : o \in P}) + 1
        /\ \A o \in P : position[o] # last.out.val

\* C6 (as claimed): move_up(n) on a row at p ends as move_to(p - n) does,
\* with the same result and the same positions, and move_down(n) as
\* move_to(p + n).
C6_UpDownDelegate ==
    (last.op \in {"move_up", "move_down"} /\ last.self \in DOMAIN last.pre) =>
        LET p == last.pre[last.self]
            r == move_to(last.pre, last.self,
                         IF last.op = "move_up" THEN p - last.arg ELSE p + last.arg)
        IN  /\ last.out = r.out
            /\ position = r.pos

\* C10 (as claimed, the part a finite run can refute): each of two concurrent
\* move_to calls on rows of one partition runs its lookup and, when it finds
\* a row, its three updates; so when both calls have completed, on different
\* rows and with targets that rows of the partition held, each has returned
\* (the position, or False) rather than raised.
C10_ConcurrentCallsRun ==
    (/\ \A t \in Procs : calls[t].pc = "done" /\ calls[t].self \in saved
     /\ calls[1].self # calls[2].self
     /\ calls[2].self \in Partition(calls[1].self)
     /\ \A t \in Procs : \E o \in Partition(calls[t].self) \ {calls[t].self} :
            position[o] = calls[t].arg) =>
        \A t \in Procs : calls[t].out.kind # "raise"

\* What the code does instead: with both calls completed, every partition
\* is numbered as it was.  (Holds under SpecConc.)
ConcLeavesContiguous ==
    (\A t \in Procs : calls[t].pc = "done") =>
        \A self \in Objs : Contiguous(position, Partition(self))

----------------------------------------------------------------------------
(* StatusModel and add_status_query_managers *)

\* The fields StatusModel gives every subtype (with the ORM's own id).
StatusModelFields == {"id", "status", "status_changed"}

\* The strings a declaration uses as status values, status names and names
\* of its own fields.
Names == {"draft", "live", "status", "title"}
OwnFields == {"title", "live"}

\* Sequences over S of length at most n.
SeqsUpTo(S, n) == UNION {[1..k -> S] : k \in 0..n}

\* sender._meta.get_field(name) finds a field (otherwise FieldDoesNotExist).
get_field(c, name) == name \in c.fields

\* The name add_status_query_managers looks up before it attaches a manager:
\* the second element of the (value, name) pair.
CheckedName(pair) == pair[2]

\* The for loop of add_status_query_managers, from pair i on.
RECURSIVE StatusLoop(_, _, _)
StatusLoop(c, i, mgrs) ==
    IF i > Len(c.STATUS) THEN [managers |-> mgrs, out |-> "ok"]
    ELSE IF get_field(c, CheckedName(c.STATUS[i]))
         THEN [managers |-> mgrs, out |-> "ImproperlyConfigured"]
         ELSE StatusLoop(c, i + 1, mgrs \cup {c.STATUS[i][1]})

add_status_query_managers(c, mgrs) ==
    IF ~c.status THEN [managers |-> mgrs, out |-> "ok"]
    ELSE StatusLoop(c, 1, mgrs)

ClassPreparedStatus ==
    /\ prepared.out = "pending"
    /\ LET r == add_status_query_managers(cls, managers) IN
        /\ managers' = r.managers
        /\ prepared' = [out |-> r.out, at |-> now]
    /\ UNCHANGED <<cls, posVars, now, saveVars, timeVars>>

InitStatus ==
    /\ \E st \in BOOLEAN, own \in SUBSET OwnFields,
          S \in SeqsUpTo(Names \X Names, MaxStatus) :
          cls = [status |-> st, timeframed |-> FALSE,
                 fields |-> (IF st THEN StatusModelFields ELSE {"id"}) \cup own,
                 STATUS |-> S]
    /\ managers = {}
    /\ prepared = Pending
    /\ now = 0
    /\ inst = [status |-> "draft", title |-> "a", status_changed |-> 0]
    /\ row = inst
    /\ lastSave = NoSave
    /\ frames = <<>>
    /\ timeframedQ = NoQ
    /\ queried = NoQuery
    /\ saved = {}
    /\ position = <<>>
    /\ cartScoped = FALSE
    /\ last = NoCall
    /\ calls = IdleCalls

SpecStatus == InitStatus /\ [][ClassPreparedStatus]_vars

\* The values a STATUS enumeration declares.
Values(c) == {c.STATUS[i][1] : i \in DOMAIN c.STATUS}

\* C7 (as claimed): finalizing a StatusModel subtype attaches a manager under
\* every declared value, unless a value is the name of a field of the class:
\* then it fails with ImproperlyConfigured and attaches no manager under
\* that name.
C7_StatusManagers ==
    (prepared.out # "pending" /\ cls.status) =>
        IF \E v \in Values(cls) : v \in cls.fields
        THEN /\ prepared.out = "ImproperlyConfigured"
             /\ \A v \in Values(cls) : v \in cls.fields => v \notin managers
        ELSE /\ prepared.out = "ok"
             /\ Values(cls) \subseteq managers

----------------------------------------------------------------------------
(* StatusModel: status_changed = MonitorField(monitor='status') *)

Statuses == {"draft", "live"}
Titles == {"a", "b"}

\* Variant: status_changed monitors another field.
StatusMonitorTitle == "title"

\* The field status_changed monitors.
StatusMonitor == "status"

\* MonitorField at save time: the field takes the current time when the
\* monitored field differs from its previously persisted value.
MonitorField_pre_save(i, persisted, monitor, t) ==
    IF i[monitor] # persisted[monitor] THEN [i EXCEPT !.status_changed = t] ELSE i

Tick ==
    /\ now < MaxTime
    /\ now' = now + 1
    /\ UNCHANGED <<posVars, clsVars, saveVars, timeVars>>

SetStatus(s) ==
    /\ inst' = [inst EXCEPT !.status = s]
    /\ UNCHANGED <<row, lastSave, posVars, clsVars, now, timeVars>>

SetTitle(x) ==
    /\ inst' = [inst EXCEPT !.title = x]
    /\ UNCHANGED <<row, lastSave, posVars, clsVars, now, timeVars>>

Save ==
    /\ inst' = MonitorField_pre_save(inst, row, StatusMonitor, now)
    /\ row' = inst'
    /\ lastSave' = [at |-> now, before |-> row, asked |-> inst]
    /\ UNCHANGED <<posVars, clsVars, now, timeVars>>

NextSave ==
    \/ Tick
    \/ \E s \in Statuses : SetStatus(s)
    \/ \E x \in Titles : SetTitle(x)
    \/ Save

InitSave ==
    /\ \E s \in Statuses, x \in Titles :
          inst = [status |-> s, title |-> x, status_changed |-> 0]
    /\ row = inst
    /\ lastSave = NoSave
    /\ now = 0
    /\ cls = NoClass
    /\ managers = {}
    /\ prepared = Pending
    /\ frames = <<>>
    /\ timeframedQ = NoQ
    /\ queried = NoQuery
    /\ saved = {}
    /\ position = <<>>
    /\ cartScoped = FALSE
    /\ last = NoCall
    /\ calls = IdleCalls

SpecSave == InitSave /\ [][NextSave]_vars

\* C8: a save sets status_changed to the time of the save when status
\* differs from the persisted status, and leaves it as persisted otherwise.
C8_StatusChanged ==
    lastSave.at >= 0 =>
        row.status_changed =
            IF lastSave.asked.status # lastSave.before.status
            THEN lastSave.at
            ELSE lastSave.before.status_changed

\* A save that changes only the title, later than a save that changed status.
C8_Witness ==
    /\ lastSave.at > lastSave.before.status_changed
    /\ lastSave.before.status_changed > 0
    /\ lastSave.asked.status = lastSave.before.status
    /\ lastSave.asked.title # lastSave.before.title
    /\ row.status_changed = lastSave.before.status_changed

----------------------------------------------------------------------------
(* TimeFramedModel and add_timeframed_query_manager *)

Rows == 1..NumRows
\* An unset (NULL) start or end.
Unset == -1
Instants == {Unset} \cup 0..MaxTime

TimeFramedFields == {"id", "start", "end"}

\* Variant: datetime.now() is called when the handler runs.
datetime_now_called(t) == [attached |-> TRUE, callable |-> FALSE, value |-> t]

\* The value the handler puts in the Q objects: datetime.now itself, the
\* function, not the time of the call.
datetime_now(t) == [attached |-> TRUE, callable |-> TRUE, value |-> 0]

\* The value a filter compares with when a query is built at time t: a
\* callable is called then.
Resolve(q, t) == IF q.callable THEN t ELSE q.value

\* (Q(start__lte=v) | Q(start__isnull=True)) & (Q(end__gte=v) | Q(end__isnull=True))
TimeframedQ(f, v) ==
    /\ (f.start # Unset /\ f.start <= v) \/ f.start = Unset
    /\ (f.end # Unset /\ f.end >= v) \/ f.end = Unset

\* QueryManager(q): the default manager's rows, filtered by q when queried.
QueryManager_get_query_set(q, t) ==
    {r \in Rows : TimeframedQ(frames[r], Resolve(q, t))}

add_timeframed_query_manager(c, mgrs, q, t) ==
    IF ~c.timeframed THEN [managers |-> mgrs, q |-> q, out |-> "ok"]
    ELSE IF get_field(c, "timeframed")
         THEN [managers |-> mgrs, q |-> q, out |-> "ImproperlyConfigured"]
         ELSE [managers |-> mgrs \cup {"timeframed"}, q |-> datetime_now(t),
               out |-> "ok"]

ClassPreparedTimeframed ==
    /\ prepared.out = "pending"
    /\ LET r == add_timeframed_query_manager(cls, managers, timeframedQ, now) IN
        /\ managers' = r.managers
        /\ timeframedQ' = r.q
        /\ prepared' = [out |-> r.out, at |-> now]
    /\ UNCHANGED <<cls, frames, queried, posVars, now, saveVars>>

QueryTimeframed ==
    /\ "timeframed" \in managers
    /\ queried' = [at |-> now, result |-> QueryManager_get_query_set(timeframedQ, now)]
    /\ UNCHANGED <<frames, timeframedQ, posVars, clsVars, now, saveVars>>

NextTime ==
    \/ Tick
    \/ ClassPreparedTimeframed
    \/ QueryTimeframed

InitTime ==
    /\ \E tf \in BOOLEAN, own \in SUBSET {"timeframed"} :
          cls = [status |-> FALSE, timeframed |-> tf,
                 fields |-> (IF tf THEN TimeFramedFields ELSE {"id"}) \cup own,
                 STATUS |-> <<>>]
    /\ frames \in [Rows -> [start : Instants, end : Instants]]
    /\ managers = {}
    /\ prepared = Pending
    /\ timeframedQ = NoQ
    /\ queried = NoQuery
    /\ now = 0
    /\ inst = [status |-> "draft", title |-> "a", status_changed |-> 0]
    /\ row = inst
    /\ lastSave = NoSave
    /\ saved = {}
    /\ position = <<>>
    /\ cartScoped = FALSE
    /\ last = NoCall
    /\ calls = IdleCalls

SpecTime == InitTime /\ [][NextTime]_vars

\* C9: a query through the timeframed manager at time t returns exactly the
\* rows with (start unset or start <= t) and (end unset or end >= t), t
\* being the time of the query.
C9_Timeframed ==
    queried.at >= 0 =>
        queried.result =
            {r \in Rows : /\ frames[r].start = Unset \/ frames[r].start <= queried.at
                          /\ frames[r].end = Unset \/ frames[r].end >= queried.at}

\* A query later than the finalization of the class: an open-ended row is
\* returned, and a row is left out that was inside its timeframe when the
\* class was finalized and is past its end at the query.
C9_Witness ==
    /\ queried.at > prepared.at
    /\ \E r \in queried.result : frames[r].start = Unset /\ frames[r].end = Unset
    /\ \E r \in Rows \ queried.result :
          /\ frames[r].start # Unset /\ frames[r].start <= prepared.at
          /\ frames[r].end >= prepared.at /\ frames[r].end < queried.at

====
